---- MODULE Spec2Model ----
(***************************************************************************)
(* A model of the viewport-transform and demand-loading core of            *)
(* svelte-otel-app: the infinite canvas (pan, zoom, resize, debounced      *)
(* fetch), the page (initial load, "Fetch More Widgets"), the mock API     *)
(* service and the shared stores.                                          *)
(*                                                                         *)
(* Numbers.  The program computes with IEEE doubles.  Here a number is an  *)
(* integer count of 1/Scale units (fixed point), and every multiplication  *)
(* and division rounds to the nearest unit, as every double operation      *)
(* rounds to the nearest double.  Pixel quantities (client coordinates,    *)
(* viewport size) are whole pixels.  Time is counted in milliseconds and   *)
(* advances in steps of TickMs.  Math.random() is a draw r from a finite   *)
(* set of hundredths, standing for the value r/100 of [0, 1).              *)
(***************************************************************************)
EXTENDS Integers, Sequences, FiniteSets

(* ------------------------------------------------------------------ *)
(* Bounds of the model                                                  *)
(* ------------------------------------------------------------------ *)
\* Timer handles window.setTimeout may hand out (the handle counter is capped).
MaxTimers == 3
\* Size of the finite set generateRandomId draws widget ids from.
MaxIds == 2
\* "Fetch More Widgets" is offered while the store would stay within this length.
MaxWidgets == 5
\* Wheel steps, in either direction, that lead to the initial zooms of SpecCanvas.
MaxZoomSteps == 18

(* ------------------------------------------------------------------ *)
(* Program constants                                                    *)
(* ------------------------------------------------------------------ *)
DEBOUNCE_DELAY == 400
InitialCount == 5
ButtonCount == 3
InteractionCount == 1
MinLatency == 500
LatencySpan == 1500
MinLatencyOne == 200
LatencySpanOne == 800
SpawnRadiusAtZoom1 == 300
PositionSpanOne == 1000
PositionOffsetOne == 500
DefaultErrorProbability == 15
RectLeft == 0
RectTop == 0

(* ------------------------------------------------------------------ *)
(* Fixed-point arithmetic                                               *)
(* ------------------------------------------------------------------ *)
Scale == 10 * 10 * 10
TickMs == DEBOUNCE_DELAY \div 4

\* n / d rounded to the nearest integer (d > 0), halves rounded up.
Round(n, d) == (2 * n + d) \div (2 * d)
FromInt(i) == i * Scale
FMul(a, b) == Round(a * b, Scale)
FDiv(a, b) == Round(a * Scale, b)
Max(a, b) == IF a >= b THEN a ELSE b
Min(a, b) == IF a <= b THEN a ELSE b
Abs(a) == IF a >= 0 THEN a ELSE -a

zoomFactor == (115 * Scale) \div 100
MinZoom == Scale \div 10
MaxZoom == 10 * Scale

NULL == "null"

VARIABLES
    transform,          \* canvasTransform store: [panX, panY, zoom], fixed point
    isPanning,          \* InfiniteCanvas: let isPanning
    lastPanX,           \* InfiniteCanvas: let lastPanX (client pixels)
    lastPanY,           \* InfiniteCanvas: let lastPanY (client pixels)
    viewportWidth,      \* InfiniteCanvas: let viewportWidth (pixels)
    viewportHeight,     \* InfiniteCanvas: let viewportHeight (pixels)
    debounceTimer,      \* InfiniteCanvas: let debounceTimer (0 is null)
    timers,             \* the platform's armed timeouts: set of [id, due]
    nextTimerId,        \* the platform's next timeout handle
    widgets,            \* widgets store: sequence of widget records
    isLoadingWidgets,   \* isLoadingWidgets store
    apiError,           \* apiError store: NULL or a message
    errorProbability,   \* errorProbability store, in hundredths
    errorRate,          \* MockApiService.errorRate, in hundredths
    inflight,           \* mock calls whose delay has not elapsed yet
    mounted,            \* whether the page and the canvas have been mounted
    destroyed,          \* whether they have been torn down since
    instance,           \* MockApiService.instance (0 is undefined)
    constructorRuns,    \* the runs of the MockApiService constructor so far
    holders,            \* const apiService of the page and of the canvas (0: not yet set)
    sinceEvent,         \* observer: ms since the last debounce trigger (capped)
    burstFires,         \* observer: fetch-routine invocations since that trigger
    lastBatch,          \* observer: the widgets the last resolved call returned
    zoomSpan,           \* the zoom attributes of the last canvas.zoom span
    moveTrail,          \* observer: pan and pointer before each of the last two moves
    console,            \* the records the service wrote during the last step
    lastSettled         \* observer: the call that settled in the last step, and its outcome

canvasVars == <<transform, isPanning, lastPanX, lastPanY, viewportWidth, viewportHeight>>
timerVars == <<debounceTimer, timers, nextTimerId>>
storeVars == <<widgets, isLoadingWidgets, apiError>>
serviceVars == <<errorProbability, errorRate, inflight>>
observerVars == <<sinceEvent, burstFires>>
traceVars == <<zoomSpan, moveTrail>>
logVars == <<console, lastSettled>>
instanceVars == <<instance, constructorRuns, holders>>
lifeVars == <<mounted, destroyed, instanceVars>>
vars == <<canvasVars, timerVars, storeVars, serviceVars, lifeVars, observerVars, lastBatch,
          traceVars, logVars>>

(* ------------------------------------------------------------------ *)
(* Initial state: the stores as created, the service constructed,       *)
(* nothing mounted yet                                                  *)
(* ------------------------------------------------------------------ *)
InitialTransform == [panX |-> 0, panY |-> 0, zoom |-> FromInt(1)]

\* The components that hold the service in a const apiService.
Holders == {"page", "canvas"}

\* No call has settled in the last step.
NotSettled == [outcome |-> "none"]

\* No canvas.zoom span has been written yet.
NoZoomSpan == [mouseX |-> 0, mouseY |-> 0, old |-> 0, attempted |-> 0, clamped |-> 0,
               started |-> 0, ended |-> 0]

Init ==
    /\ transform = InitialTransform
    /\ isPanning = FALSE
    /\ lastPanX = 0
    /\ lastPanY = 0
    /\ viewportWidth = 0
    /\ viewportHeight = 0
    /\ debounceTimer = 0
    /\ timers = {}
    /\ nextTimerId = 1
    /\ widgets = <<>>
    /\ isLoadingWidgets = FALSE
    /\ apiError = NULL
    /\ errorProbability = DefaultErrorProbability
    /\ errorRate = DefaultErrorProbability
    /\ inflight = {}
    /\ mounted = FALSE
    /\ destroyed = FALSE
    /\ instance = 1
    /\ constructorRuns = 1
    /\ holders = [h \in Holders |-> 1]
    /\ sinceEvent = DEBOUNCE_DELAY
    /\ burstFires = 0
    /\ lastBatch = <<>>
    /\ zoomSpan = NoZoomSpan
    /\ moveTrail = <<>>
    /\ console = <<>>
    /\ lastSettled = NotSettled

\* A step in which no call settles: nothing is logged.
Quiet ==
    /\ console' = <<>>
    /\ lastSettled' = NotSettled

(* ------------------------------------------------------------------ *)
(* Mock API service                                                     *)
(* ------------------------------------------------------------------ *)
MockIds == 1 .. MaxIds

\* Math.random() * 1500 + 500, for the draw r/100.
Latency(r) == (r * LatencySpan) \div 100 + MinLatency

\* The first tick boundary at or after ms milliseconds.
CeilTick(ms) == ((ms + TickMs - 1) \div TickMs) * TickMs

\* shouldSimulateError with <= in place of <.
shouldSimulateErrorInclusive(r) == r <= errorRate

\* shouldSimulateError with the rate the service was constructed with.
shouldSimulateErrorAsConstructed(r) == r < DefaultErrorProbability

\* Math.random() < this.errorRate, for the draw r/100.
shouldSimulateError(r) == r < errorRate

errorTypes == <<
    [type |-> "NetworkError", message |-> "Network timeout. Please check your connection.", status |-> 0],
    [type |-> "APIError", message |-> "Internal Server Error", status |-> 500],
    [type |-> "NotFoundError", message |-> "Resource Not Found", status |-> 404],
    [type |-> "APIError", message |-> "Invalid request parameters", status |-> 400] >>

\* simulateError with the parameters of some other call attached.
simulateErrorOfAnotherCall(requestParams, r) ==
    LET randomErrorType == errorTypes[(r * Len(errorTypes)) \div 100 + 1]
    IN  [message |-> randomErrorType.message,
         errorType |-> randomErrorType.type,
         status |-> randomErrorType.status,
         requestParams |-> [widgetId |-> 0]]

\* The SimulatedError built for the draw r/100 (status 0 stands for undefined).
simulateError(requestParams, r) ==
    LET randomErrorType == errorTypes[(r * Len(errorTypes)) \div 100 + 1]
    IN  [message |-> randomErrorType.message,
         errorType |-> randomErrorType.type,
         status |-> randomErrorType.status,
         requestParams |-> requestParams]

\* The call fetchAllWidgets(count, centerX, centerY, zoom) made by `caller`,
\* its timeout armed with the latency drawn by r (rateAtCall is an observer:
\* the error rate at the moment of the call).
fetchAllWidgets(caller, count, currentPanX, currentPanY, currentZoom, r) ==
    /\ inflight' = inflight \cup
           {[method |-> "fetchAllWidgets",
             caller |-> caller,
             requestParams |-> [count |-> count, currentPanX |-> currentPanX,
                                currentPanY |-> currentPanY, currentZoom |-> currentZoom],
             due |-> CeilTick(Latency(r)),
             rateAtCall |-> errorRate]}
    /\ Quiet

\* Math.random() for the draw r/100, as a number.
Random(r) == (r * Scale) \div 100

\* Spawned without the shift that centres the square on currentPan.
SpawnedUncentred(currentPan, currentZoom, r) ==
    LET spawnRadius == FDiv(FromInt(SpawnRadiusAtZoom1), currentZoom)
    IN  currentPan + FMul(Random(r), spawnRadius) * 2

\* currentPan + (Math.random() * spawnRadius * 2 - spawnRadius)
Spawned(currentPan, currentZoom, r) ==
    LET spawnRadius == FDiv(FromInt(SpawnRadiusAtZoom1), currentZoom)
    IN  currentPan + (FMul(Random(r), spawnRadius) * 2 - spawnRadius)

\* The widgets a successful call resolves with: one per generated id, placed
\* by the draws pos[i] around the centre the call was given.
NewWidgets(ids, pos, requestParams) ==
    [i \in 1 .. Len(ids) |->
        [id |-> ids[i],
         x |-> Spawned(requestParams.currentPanX, requestParams.currentZoom, pos[i][1]),
         y |-> Spawned(requestParams.currentPanY, requestParams.currentZoom, pos[i][2])]]

\* The record logError writes.
logError(error) == <<[level |-> "ERROR", about |-> error.errorType]>>

\* logSuccess writing nothing.
logNothing(methodName) == <<>>

\* The record logSuccess writes.
logSuccess(methodName) == <<[level |-> "SUCCESS", about |-> methodName]>>

\* Math.random() * 800 + 200, for the draw r/100.
LatencyOne(r) == (r * LatencySpanOne) \div 100 + MinLatencyOne

\* A call fetchWidgetData(widgetId), its timeout armed with the latency drawn
\* by r (no component makes this call).
fetchWidgetData(widgetId, r) ==
    /\ inflight' = inflight \cup
           {[method |-> "fetchWidgetData",
             caller |-> "direct",
             requestParams |-> [widgetId |-> widgetId],
             due |-> CeilTick(LatencyOne(r)),
             rateAtCall |-> errorRate]}
    /\ Quiet
    /\ UNCHANGED <<canvasVars, timerVars, storeVars, errorProbability, errorRate, lifeVars,
                   observerVars, lastBatch, traceVars>>

\* PlacedOne without the shift by -500.
PlacedOneUnshifted(r) == FromInt((r * PositionSpanOne) \div 100)

\* Math.floor(Math.random() * 1000 - 500), for the draw r/100.
PlacedOne(r) == FromInt((r * PositionSpanOne) \div 100 - PositionOffsetOne)

\* A parsed number: NaN, or a value in hundredths.
NaN == [nan |-> TRUE, value |-> 0]
Num(v) == [nan |-> FALSE, value |-> v]

\* probability >= 0 && probability <= 1 (false for NaN)
InUnitInterval(probability) ==
    ~probability.nan /\ probability.value >= 0 /\ probability.value <= 100

\* setErrorProbability without the range check.
setErrorProbabilityUnchecked(probability) ==
    /\ errorProbability' = probability.value
    /\ errorRate' = probability.value

\* getInstance with a new instance constructed on every call.
getInstanceAlwaysNew(holder) ==
    /\ instance' = constructorRuns + 1
    /\ constructorRuns' = constructorRuns + 1
    /\ errorRate' = errorProbability
    /\ holders' = [holders EXCEPT ![holder] = instance']
    /\ UNCHANGED <<canvasVars, timerVars, storeVars, errorProbability, inflight, mounted,
                   destroyed, observerVars, lastBatch, traceVars>>
    /\ Quiet

\* const apiService = MockApiService.getInstance() in the script of `holder`:
\* the first call runs the constructor, whose subscription to the
\* errorProbability store sets errorRate at once.
getInstance(holder) ==
    /\ IF instance = 0
       THEN /\ instance' = constructorRuns + 1
            /\ constructorRuns' = constructorRuns + 1
            /\ errorRate' = errorProbability
       ELSE UNCHANGED <<instance, constructorRuns, errorRate>>
    /\ holders' = [holders EXCEPT ![holder] = instance']
    /\ UNCHANGED <<canvasVars, timerVars, storeVars, errorProbability, inflight, mounted,
                   destroyed, observerVars, lastBatch, traceVars>>
    /\ Quiet

\* MockApiService.setErrorProbability: the store is set, and the service's
\* subscription copies the value to errorRate.
setErrorProbability(probability) ==
    IF InUnitInterval(probability)
    THEN /\ errorProbability' = probability.value
         /\ errorRate' = probability.value
    ELSE UNCHANGED <<errorProbability, errorRate>>

\* A direct call of setErrorProbability.
setErrorProbabilityCall(probability) ==
    /\ setErrorProbability(probability)
    /\ UNCHANGED <<canvasVars, timerVars, storeVars, inflight, lifeVars, observerVars,
                   lastBatch, traceVars>>
    /\ Quiet

(* ------------------------------------------------------------------ *)
(* Debounce                                                             *)
(* ------------------------------------------------------------------ *)
\* triggerDebouncedFetch(): clear the timeout the handle names, arm a new one.
Rearmed ==
    (IF debounceTimer # 0 THEN {t \in timers : t.id # debounceTimer} ELSE timers)
        \cup {[id |-> nextTimerId, due |-> DEBOUNCE_DELAY]}

triggerDebouncedFetch ==
    /\ nextTimerId <= MaxTimers
    /\ timers' = Rearmed
    /\ debounceTimer' = nextTimerId
    /\ nextTimerId' = nextTimerId + 1
    /\ sinceEvent' = 0
    /\ burstFires' = 0

(* ------------------------------------------------------------------ *)
(* Canvas event handlers                                                *)
(* ------------------------------------------------------------------ *)
\* handleMouseDown without the test of the button.
handleMouseDownAnyButton(button, clientX, clientY) ==
    /\ mounted /\ ~destroyed
    /\ isPanning' = TRUE
    /\ lastPanX' = clientX
    /\ lastPanY' = clientY
    /\ moveTrail' = <<>>
    /\ UNCHANGED <<transform, viewportWidth, viewportHeight, timerVars, storeVars,
                   serviceVars, lifeVars, lastBatch, observerVars, zoomSpan>>
    /\ Quiet

handleMouseDown(button, clientX, clientY) ==
    /\ mounted /\ ~destroyed
    /\ IF button # 0
       THEN UNCHANGED <<isPanning, lastPanX, lastPanY, moveTrail>>
       ELSE /\ isPanning' = TRUE
            /\ lastPanX' = clientX
            /\ lastPanY' = clientY
            /\ moveTrail' = <<>>
    /\ UNCHANGED <<transform, viewportWidth, viewportHeight, timerVars, storeVars,
                   serviceVars, lifeVars, lastBatch, observerVars, zoomSpan>>
    /\ Quiet

\* The pan moved by the screen delta, not scaled by the zoom.
PannedByPixels(current, dx, dy) ==
    [current EXCEPT !.panX = current.panX + FromInt(dx),
                    !.panY = current.panY + FromInt(dy)]

\* canvasTransform.update of handleMouseMove.
Panned(current, dx, dy) ==
    [current EXCEPT !.panX = current.panX + FDiv(FromInt(dx), current.zoom),
                    !.panY = current.panY + FDiv(FromInt(dy), current.zoom)]

\* The trail with the state before the coming move added, the last two kept.
Trailed ==
    LET t == Append(moveTrail, [panX |-> transform.panX, panY |-> transform.panY,
                                clientX |-> lastPanX, clientY |-> lastPanY])
    IN  IF Len(t) > 2 THEN Tail(t) ELSE t

handleMouseMove(clientX, clientY) ==
    /\ mounted /\ ~destroyed
    /\ IF ~isPanning
       THEN UNCHANGED <<transform, lastPanX, lastPanY, timerVars, observerVars, moveTrail>>
       ELSE /\ transform' = Panned(transform, clientX - lastPanX, clientY - lastPanY)
            /\ lastPanX' = clientX
            /\ lastPanY' = clientY
            /\ moveTrail' = Trailed
            /\ triggerDebouncedFetch
    /\ UNCHANGED <<isPanning, viewportWidth, viewportHeight, storeVars, serviceVars,
                   lifeVars, lastBatch, zoomSpan>>
    /\ Quiet

handleMouseUp ==
    /\ mounted /\ ~destroyed
    /\ isPanning' = FALSE
    /\ moveTrail' = <<>>
    /\ UNCHANGED <<transform, lastPanX, lastPanY, viewportWidth, viewportHeight,
                   timerVars, storeVars, serviceVars, lifeVars, lastBatch, observerVars,
                   zoomSpan>>
    /\ Quiet

\* oldZoom * zoomFactor on wheel up (deltaY < 0), oldZoom / zoomFactor otherwise.
NewZoom(oldZoom, deltaY) ==
    IF deltaY < 0 THEN FMul(oldZoom, zoomFactor) ELSE FDiv(oldZoom, zoomFactor)

\* The clamp without its lower bound.
ClampedAbove(newZoom) == Min(newZoom, MaxZoom)

\* Math.max(0.1, Math.min(newZoom, 10))
ClampedZoom(newZoom) == Max(MinZoom, Min(newZoom, MaxZoom))

\* The transform handleWheel stores when the zoom changes.
Zoomed(current, clampedZoom, mouseXInViewport, mouseYInViewport) ==
    LET oldZoom == current.zoom
        mouseXWorld == FDiv(FromInt(mouseXInViewport), oldZoom) - current.panX
        mouseYWorld == FDiv(FromInt(mouseYInViewport), oldZoom) - current.panY
        newPanX == FDiv(FromInt(mouseXInViewport), clampedZoom) - mouseXWorld
        newPanY == FDiv(FromInt(mouseYInViewport), clampedZoom) - mouseYWorld
    IN  [panX |-> newPanX, panY |-> newPanY, zoom |-> clampedZoom]

\* The early return never taken.
ZoomNeverUnchanged(clampedZoom, oldZoom) == FALSE

\* if (clampedZoom === oldZoom): the early return of handleWheel.
ZoomUnchanged(clampedZoom, oldZoom) == clampedZoom = oldZoom

\* The calls of zoomSpan.end() in one run of handleWheel: the one before the
\* early return, where it is taken, and the one of the finally block, which
\* runs on every path out of the try block.
SpanEnds(clampedZoom, oldZoom) ==
    (IF ZoomUnchanged(clampedZoom, oldZoom) THEN 1 ELSE 0) + 1

\* The span of one run of handleWheel: the attributes written before the early
\* return, and the calls of tracer.startSpan and of zoomSpan.end().
ZoomAttributes(oldZoom, deltaY, clientX, clientY) ==
    [mouseX |-> clientX,
     mouseY |-> clientY,
     old |-> oldZoom,
     attempted |-> NewZoom(oldZoom, deltaY),
     clamped |-> ClampedZoom(NewZoom(oldZoom, deltaY)),
     started |-> 1,
     ended |-> SpanEnds(ClampedZoom(NewZoom(oldZoom, deltaY)), oldZoom)]

handleWheel(deltaY, clientX, clientY) ==
    LET oldZoom == transform.zoom
        clampedZoom == ClampedZoom(NewZoom(oldZoom, deltaY))
    IN  /\ mounted /\ ~destroyed
        /\ zoomSpan' = ZoomAttributes(oldZoom, deltaY, clientX, clientY)
        /\ IF ZoomUnchanged(clampedZoom, oldZoom)
           THEN UNCHANGED <<transform, timerVars, observerVars, moveTrail>>
           ELSE /\ transform' = Zoomed(transform, clampedZoom,
                                       clientX - RectLeft, clientY - RectTop)
                /\ moveTrail' = <<>>
                /\ triggerDebouncedFetch
        /\ UNCHANGED <<isPanning, lastPanX, lastPanY, viewportWidth, viewportHeight,
                       storeVars, serviceVars, lifeVars, lastBatch>>
        /\ Quiet

handleResize(clientWidth, clientHeight) ==
    /\ mounted /\ ~destroyed
    /\ viewportWidth' = clientWidth
    /\ viewportHeight' = clientHeight
    /\ triggerDebouncedFetch
    /\ UNCHANGED <<transform, isPanning, lastPanX, lastPanY, storeVars, serviceVars,
                   lifeVars, lastBatch, traceVars>>
    /\ Quiet

(* ------------------------------------------------------------------ *)
(* The fetch routine of the canvas                                      *)
(* ------------------------------------------------------------------ *)
\* The centre on the X axis without the division by the zoom.
worldViewCenterXUnscaled == FromInt(viewportWidth) \div 2 - transform.panX

\* (viewportWidth / 2 / transform.zoom) - transform.panX, and the same for Y.
worldViewCenterX == FDiv(FromInt(viewportWidth) \div 2, transform.zoom) - transform.panX
worldViewCenterY == FDiv(FromInt(viewportHeight) \div 2, transform.zoom) - transform.panY

\* The fetch routine without the check of the loading flag.
fetchWidgetsForCurrentViewUnguarded(r) ==
    /\ isLoadingWidgets' = TRUE
    /\ apiError' = NULL
    /\ fetchAllWidgets("interaction", InteractionCount,
                       worldViewCenterX, worldViewCenterY, transform.zoom, r)
    /\ UNCHANGED <<widgets, errorProbability, errorRate>>

\* fetchWidgetsForCurrentView() up to its await: skipped while loading.
fetchWidgetsForCurrentView(r) ==
    IF isLoadingWidgets
    THEN UNCHANGED <<storeVars, serviceVars>> /\ Quiet
    ELSE /\ isLoadingWidgets' = TRUE
         /\ apiError' = NULL
         /\ fetchAllWidgets("interaction", InteractionCount,
                            worldViewCenterX, worldViewCenterY, transform.zoom, r)
         /\ UNCHANGED <<widgets, errorProbability, errorRate>>

\* The timeouts the platform may run now: the oldest of those that are due.
DueTimers == {t \in timers : t.due = 0 /\ \A u \in timers : u.due = 0 => t.id <= u.id}

\* The timeout callback armed by triggerDebouncedFetch().
TimerFire(r) ==
    \E t \in DueTimers :
        /\ timers' = timers \ {t}
        /\ burstFires' = burstFires + 1
        /\ fetchWidgetsForCurrentView(r)
        /\ UNCHANGED <<canvasVars, debounceTimer, nextTimerId, lifeVars, lastBatch,
                       sinceEvent, traceVars>>

\* Merged without the id filter.
MergedUnfiltered(current, newWidgets) == current \o newWidgets

\* The widgetStore.update callback of fetchWidgetsForCurrentView().
Merged(current, newWidgets) ==
    LET existingIds == {current[i].id : i \in 1 .. Len(current)}
        trulyNewWidgets == SelectSeq(newWidgets, LAMBDA nw : nw.id \notin existingIds)
    IN  IF Len(trulyNewWidgets) > 0 THEN current \o trulyNewWidgets ELSE current

\* Stored with the button's batch put in front of the store.
StoredInFront(caller, current, newWidgets) ==
    CASE caller = "initial" -> newWidgets
      [] caller = "button" -> newWidgets \o current
      [] caller = "interaction" -> Merged(current, newWidgets)

\* The widget store after `caller` has received newWidgets.
Stored(caller, current, newWidgets) ==
    CASE caller = "initial" -> newWidgets
      [] caller = "button" -> current \o newWidgets
      [] caller = "interaction" -> Merged(current, newWidgets)

\* Surfaced with the error slot left empty.
SurfacedNothing(caller, e) == NULL

\* The message `caller` puts into the error slot.
Surfaced(caller, e) ==
    IF caller = "interaction"
    THEN "Interaction fetch failed: " \o e.message
    ELSE e.message

\* Finally with the loading flag left as it is.
FinallyLeavesFlag(caller) ==
    /\ isLoadingWidgets' = isLoadingWidgets
    /\ debounceTimer' = IF caller = "interaction" THEN 0 ELSE debounceTimer

\* finally: the interaction fetch also forgets the timer handle.
Finally(caller) ==
    /\ isLoadingWidgets' = FALSE
    /\ debounceTimer' = IF caller = "interaction" THEN 0 ELSE debounceTimer

DueCalls == {f \in inflight : f.due = 0}

\* The call as it was made, for the record of its outcome.
CallOf(f) == [method |-> f.method, caller |-> f.caller, requestParams |-> f.requestParams]

\* A fetchAllWidgets call's timeout runs and the call resolves; the caller resumes.
FetchResolve(r, idSet, posSet) ==
    \E f \in DueCalls :
        /\ f.method = "fetchAllWidgets"
        /\ ~shouldSimulateError(r)
        /\ \E ids \in [1 .. f.requestParams.count -> idSet],
              pos \in [1 .. f.requestParams.count -> posSet] :
               LET newWidgets == NewWidgets(ids, pos, f.requestParams)
               IN  /\ widgets' = Stored(f.caller, widgets, newWidgets)
                   /\ lastBatch' = newWidgets
                   /\ lastSettled' = [outcome |-> "resolved", call |-> CallOf(f),
                                      rateAtCall |-> f.rateAtCall,
                                      value |-> newWidgets]
        /\ console' = logSuccess("fetchAllWidgets")
        /\ inflight' = inflight \ {f}
        /\ Finally(f.caller)
        /\ UNCHANGED <<canvasVars, timers, nextTimerId, apiError, errorProbability,
                       errorRate, lifeVars, observerVars, traceVars>>

\* A fetchAllWidgets call's timeout runs and the call rejects; the caller resumes.
FetchReject(r, rt) ==
    \E f \in DueCalls :
        /\ f.method = "fetchAllWidgets"
        /\ shouldSimulateError(r)
        /\ apiError' = Surfaced(f.caller, simulateError(f.requestParams, rt))
        /\ lastSettled' = [outcome |-> "rejected", call |-> CallOf(f),
                                      rateAtCall |-> f.rateAtCall,
                           value |-> simulateError(f.requestParams, rt)]
        /\ console' = logError(simulateError(f.requestParams, rt))
        /\ inflight' = inflight \ {f}
        /\ Finally(f.caller)
        /\ UNCHANGED <<canvasVars, timers, nextTimerId, widgets, errorProbability,
                       errorRate, lifeVars, lastBatch, observerVars, traceVars>>

\* A fetchWidgetData call's timeout runs and the call resolves.
fetchWidgetDataResolve(r, rx, ry) ==
    \E f \in DueCalls :
        /\ f.method = "fetchWidgetData"
        /\ ~shouldSimulateError(r)
        /\ lastSettled' = [outcome |-> "resolved", call |-> CallOf(f),
                                      rateAtCall |-> f.rateAtCall,
                           value |-> [id |-> f.requestParams.widgetId,
                                      x |-> PlacedOne(rx), y |-> PlacedOne(ry)]]
        /\ console' = logSuccess("fetchWidgetData")
        /\ inflight' = inflight \ {f}
        /\ UNCHANGED <<canvasVars, timerVars, storeVars, errorProbability, errorRate,
                       lifeVars, observerVars, lastBatch, traceVars>>

\* A fetchWidgetData call's timeout runs and the call rejects.
fetchWidgetDataReject(r, rt) ==
    \E f \in DueCalls :
        /\ f.method = "fetchWidgetData"
        /\ shouldSimulateError(r)
        /\ lastSettled' = [outcome |-> "rejected", call |-> CallOf(f),
                                      rateAtCall |-> f.rateAtCall,
                           value |-> simulateError(f.requestParams, rt)]
        /\ console' = logError(simulateError(f.requestParams, rt))
        /\ inflight' = inflight \ {f}
        /\ UNCHANGED <<canvasVars, timerVars, storeVars, errorProbability, errorRate,
                       lifeVars, observerVars, lastBatch, traceVars>>

(* ------------------------------------------------------------------ *)
(* The page                                                             *)
(* ------------------------------------------------------------------ *)
\* The canvas' onMount, then the page's: the initial load is requested.
Mount(clientWidth, clientHeight, innerWidth, innerHeight, r) ==
    /\ ~mounted
    /\ mounted' = TRUE
    /\ UNCHANGED <<destroyed, instanceVars>>
    /\ viewportWidth' = clientWidth
    /\ viewportHeight' = clientHeight
    /\ isLoadingWidgets' = TRUE
    /\ apiError' = NULL
    /\ fetchAllWidgets("initial", InitialCount,
                       FDiv(FromInt(innerWidth) \div 2, transform.zoom) - transform.panX,
                       FDiv(FromInt(innerHeight) \div 2, transform.zoom) - transform.panY,
                       transform.zoom, r)
    /\ UNCHANGED <<transform, isPanning, lastPanX, lastPanY, timerVars, widgets,
                   errorProbability, errorRate, observerVars, lastBatch, traceVars>>

\* A click on "Fetch More Widgets" (disabled while loading).
\* fetchMoreWidgets with the error slot left as it is.
fetchMoreWidgetsKeepingError(innerWidth, innerHeight, r) ==
    /\ mounted /\ ~destroyed
    /\ ~isLoadingWidgets
    /\ Len(widgets) + ButtonCount <= MaxWidgets
    /\ isLoadingWidgets' = TRUE
    /\ fetchAllWidgets("button", ButtonCount,
                       (-transform.panX) + FDiv(FromInt(innerWidth) \div 2, transform.zoom),
                       (-transform.panY) + FDiv(FromInt(innerHeight) \div 2, transform.zoom),
                       transform.zoom, r)
    /\ UNCHANGED <<canvasVars, timerVars, widgets, apiError, errorProbability, errorRate,
                   lifeVars, lastBatch, observerVars, traceVars>>

fetchMoreWidgets(innerWidth, innerHeight, r) ==
    /\ mounted /\ ~destroyed
    /\ ~isLoadingWidgets
    /\ Len(widgets) + ButtonCount <= MaxWidgets
    /\ isLoadingWidgets' = TRUE
    /\ apiError' = NULL
    /\ fetchAllWidgets("button", ButtonCount,
                       (-transform.panX) + FDiv(FromInt(innerWidth) \div 2, transform.zoom),
                       (-transform.panY) + FDiv(FromInt(innerHeight) \div 2, transform.zoom),
                       transform.zoom, r)
    /\ UNCHANGED <<canvasVars, timerVars, widgets, errorProbability, errorRate,
                   lifeVars, lastBatch, observerVars, traceVars>>

\* A click on Dismiss, the button of the error message the page shows while
\* the error slot holds one.
Dismiss ==
    /\ mounted /\ ~destroyed
    /\ apiError # NULL
    /\ apiError' = NULL
    /\ UNCHANGED <<canvasVars, timerVars, widgets, isLoadingWidgets, serviceVars,
                   lifeVars, observerVars, lastBatch, traceVars>>
    /\ Quiet

\* Input on the error-probability slider, newProb = parseFloat(target.value).
handleProbabilityChange(newProb) ==
    /\ mounted /\ ~destroyed
    /\ IF ~newProb.nan /\ newProb.value >= 0 /\ newProb.value <= 100
       THEN setErrorProbability(newProb)
       ELSE UNCHANGED <<errorProbability, errorRate>>
    /\ UNCHANGED <<canvasVars, timerVars, storeVars, inflight, lifeVars, observerVars,
                   lastBatch, traceVars>>
    /\ Quiet

\* The page and its canvas are torn down: the cleanup returned by the canvas'
\* onMount removes the listeners and clears the timeout the handle names.
Destroy ==
    /\ mounted /\ ~destroyed
    /\ destroyed' = TRUE
    /\ timers' = IF debounceTimer # 0
                  THEN {t \in timers : t.id # debounceTimer}
                  ELSE timers
    /\ UNCHANGED <<canvasVars, debounceTimer, nextTimerId, storeVars, serviceVars,
                   mounted, instanceVars, observerVars, lastBatch, traceVars>>
    /\ Quiet

(* ------------------------------------------------------------------ *)
(* Viewport culling                                                     *)
(* ------------------------------------------------------------------ *)
\* isWidgetInView without the buffer around the viewport.
isWidgetInViewUnbuffered(widget, currentTransform) ==
    LET widgetWidthWorld == FromInt(220)
        widgetHeightWorld == FromInt(150)
        w_left == widget.x
        w_right == widget.x + widgetWidthWorld
        w_top == widget.y
        w_bottom == widget.y + widgetHeightWorld
        v_left == -currentTransform.panX
        v_top == -currentTransform.panY
        v_right == (-currentTransform.panX) + FDiv(FromInt(viewportWidth), currentTransform.zoom)
        v_bottom == (-currentTransform.panY) + FDiv(FromInt(viewportHeight), currentTransform.zoom)
    IN  w_left < v_right /\ w_right > v_left /\ w_top < v_bottom /\ w_bottom > v_top

\* isWidgetInView(widget, currentTransform), the isVisible property of a widget.
isWidgetInView(widget, currentTransform) ==
    LET widgetWidthWorld == FromInt(220)
        widgetHeightWorld == FromInt(150)
        buffer == FDiv(FromInt(100), currentTransform.zoom)
        w_left == widget.x
        w_right == widget.x + widgetWidthWorld
        w_top == widget.y
        w_bottom == widget.y + widgetHeightWorld
        v_left == (-currentTransform.panX) - buffer
        v_top == (-currentTransform.panY) - buffer
        v_right == (-currentTransform.panX)
                       + FDiv(FromInt(viewportWidth), currentTransform.zoom) + buffer
        v_bottom == (-currentTransform.panY)
                        + FDiv(FromInt(viewportHeight), currentTransform.zoom) + buffer
    IN  w_left < v_right /\ w_right > v_left /\ w_top < v_bottom /\ w_bottom > v_top

\* a * b for a multiplicand b too large for FMul: b is split into its integer
\* and its fractional part.
FMulWide(a, b) == a * (b \div Scale) + Round(a * (b % Scale), Scale)

\* The canvas-content element's style, transform: translate(panX px, panY px)
\* scale(zoom) with transform-origin 0 0, applied to the world point (x, y):
\* the point is scaled about the origin and then translated.
canvasContentTransform(x, y, currentTransform) ==
    <<currentTransform.panX + FMulWide(currentTransform.zoom, x),
      currentTransform.panY + FMulWide(currentTransform.zoom, y)>>

(* ------------------------------------------------------------------ *)
(* Time                                                                 *)
(* ------------------------------------------------------------------ *)
\* TickMs pass; no timeout that is due is passed over.
Tick ==
    /\ DueTimers = {} /\ DueCalls = {}
    /\ timers # {} \/ inflight # {} \/ sinceEvent < DEBOUNCE_DELAY
    /\ timers' = {[t EXCEPT !.due = t.due - TickMs] : t \in timers}
    /\ inflight' = {[f EXCEPT !.due = f.due - TickMs] : f \in inflight}
    /\ sinceEvent' = Min(sinceEvent + TickMs, DEBOUNCE_DELAY)
    /\ UNCHANGED <<canvasVars, debounceTimer, nextTimerId, storeVars, errorProbability,
                   errorRate, lifeVars, lastBatch, burstFires, traceVars>>
    /\ Quiet

(* ------------------------------------------------------------------ *)
(* Inputs                                                               *)
(* ------------------------------------------------------------------ *)
\* Draws of Math.random(), in hundredths.
LatencyDraws == {0, 99}
DecisionDraws == {0, 50, 99}
TemplateDraws == {0, 99}
\* The pair of draws that places a widget at the centre of the spawn square.
CentreDraw == {<<50, 50>>}
\* Client sizes of the canvas container (taken for the window's as well).
ViewportSizes == {<<800, 600>>}
\* Mouse buttons: 0 is the left one.
Buttons == {0, 2}

(* ------------------------------------------------------------------ *)
(* Spec: the debounce and fetch machinery over time.  Every handler is  *)
(* present; the pointer is pressed at the viewport origin and its move  *)
(* events report that same position (a move event triggers the          *)
(* debounce whatever its delta), the wheel zooms in at the origin, ids  *)
(* are drawn from a one-element set.                                    *)
(* ------------------------------------------------------------------ *)
Next ==
    \/ \E v \in ViewportSizes, r \in LatencyDraws : Mount(v[1], v[2], v[1], v[2], r)
    \/ \E b \in Buttons : handleMouseDown(b, 0, 0)
    \/ handleMouseMove(0, 0)
    \/ handleMouseUp
    \/ handleWheel(-100, 0, 0)
    \/ \E v \in ViewportSizes : handleResize(v[1], v[2])
    \/ \E r \in LatencyDraws : TimerFire(r)
    \/ \E r \in DecisionDraws : FetchResolve(r, {1}, CentreDraw)
    \/ \E r \in DecisionDraws : FetchReject(r, 0)
    \/ \E v \in ViewportSizes, r \in LatencyDraws : fetchMoreWidgets(v[1], v[2], r)
    \/ Tick

Spec == Init /\ [][Next]_vars

\* SpecTeardown: Spec with the teardown of the page at any moment after mount.
NextTeardown == Next \/ Destroy

SpecTeardown == Init /\ [][NextTeardown]_vars

\* SpecPage: Spec with the Dismiss button of the page's error message.
NextPage == Next \/ Dismiss

SpecPage == Init /\ [][NextPage]_vars

\* A step in which the timeout callback of a call in flight runs.
CallSettles ==
    \E r \in DecisionDraws : FetchResolve(r, {1}, CentreDraw) \/ FetchReject(r, 0)

\* A step in which the timeout callback of a debounce timer runs.
TimerRuns == \E r \in LatencyDraws : TimerFire(r)

\* FairSpec: Spec with time that keeps passing and an event loop that runs
\* every timeout callback that has come due.
FairSpec ==
    Spec /\ WF_vars(Tick) /\ WF_vars(CallSettles) /\ WF_vars(TimerRuns)

(* ------------------------------------------------------------------ *)
(* SpecStore: the widget store under every fetch path, ids drawn from   *)
(* the whole id set; the canvas is only resized.                        *)
(* ------------------------------------------------------------------ *)
NextStore ==
    \/ \E v \in ViewportSizes, r \in LatencyDraws : Mount(v[1], v[2], v[1], v[2], r)
    \/ \E v \in ViewportSizes : handleResize(v[1], v[2])
    \/ \E r \in LatencyDraws : TimerFire(r)
    \/ \E r \in DecisionDraws : FetchResolve(r, MockIds, CentreDraw)
    \/ \E r \in DecisionDraws, rt \in TemplateDraws : FetchReject(r, rt)
    \/ \E v \in ViewportSizes, r \in LatencyDraws : fetchMoreWidgets(v[1], v[2], r)
    \/ Tick

SpecStore == Init /\ [][NextStore]_vars

(* ------------------------------------------------------------------ *)
(* SpecService: the mock service under every kind of call and every     *)
(* setting of the error probability: the calls the page and the canvas  *)
(* make, direct fetchWidgetData calls, the slider and direct            *)
(* setErrorProbability calls.  The wheel zooms in, and it is turned,    *)
(* like a direct call is made, while no call is in flight and no timer  *)
(* is armed; the widgets of one batch are placed by the same draws, and *)
(* every call is given its shortest latency.                            *)
(* ------------------------------------------------------------------ *)
\* Values the slider reports and setErrorProbability is called with.
ProbabilityInputs == {NaN, Num(-1), Num(0), Num(100), Num(101)}
\* Draws that select each of the error templates.
AllTemplateDraws == {0, 25, 50, 99}
\* The draw that gives a call its shortest latency.
ShortestLatency == {0}
\* The ids fetchWidgetData is called with.
DirectIds == {1, 2}
\* Pairs of draws that place a widget: the two ends of the range of Math.random().
PositionDraws == {<<0, 0>>, <<99, 99>>}

\* Nothing is pending: no call in flight, no timeout armed.
Idle == inflight = {} /\ timers = {}

NextService ==
    \/ \E v \in ViewportSizes, r \in ShortestLatency : Mount(v[1], v[2], v[1], v[2], r)
    \/ Idle /\ handleWheel(-100, 0, 0)
    \/ \E r \in ShortestLatency : TimerFire(r)
    \/ \E r \in DecisionDraws, p \in PositionDraws : FetchResolve(r, {1}, {p})
    \/ \E r \in DecisionDraws, rt \in AllTemplateDraws : FetchReject(r, rt)
    \/ \E v \in ViewportSizes, r \in ShortestLatency : fetchMoreWidgets(v[1], v[2], r)
    \/ Idle /\ \E id \in DirectIds, r \in ShortestLatency : fetchWidgetData(id, r)
    \/ \E r \in DecisionDraws, p \in PositionDraws : fetchWidgetDataResolve(r, p[1], p[2])
    \/ \E r \in DecisionDraws, rt \in AllTemplateDraws : fetchWidgetDataReject(r, rt)
    \/ \E p \in ProbabilityInputs : handleProbabilityChange(p)
    \/ \E p \in ProbabilityInputs : setErrorProbabilityCall(p)
    \/ Tick

SpecService == Init /\ [][NextService]_vars

(* ------------------------------------------------------------------ *)
(* SpecInstance: SpecService from the moment the service's module has   *)
(* been loaded.  The scripts of the page and of the canvas call         *)
(* getInstance, any number of times, and the handlers of SpecService    *)
(* run once both components hold the service.                           *)
(* ------------------------------------------------------------------ *)
\* The stores as created, MockApiService.instance undefined.
InitInstance ==
    /\ transform = InitialTransform
    /\ isPanning = FALSE
    /\ lastPanX = 0
    /\ lastPanY = 0
    /\ viewportWidth = 0
    /\ viewportHeight = 0
    /\ debounceTimer = 0
    /\ timers = {}
    /\ nextTimerId = 1
    /\ widgets = <<>>
    /\ isLoadingWidgets = FALSE
    /\ apiError = NULL
    /\ errorProbability = DefaultErrorProbability
    /\ errorRate = DefaultErrorProbability
    /\ inflight = {}
    /\ mounted = FALSE
    /\ destroyed = FALSE
    /\ instance = 0
    /\ constructorRuns = 0
    /\ holders = [h \in Holders |-> 0]
    /\ sinceEvent = DEBOUNCE_DELAY
    /\ burstFires = 0
    /\ lastBatch = <<>>
    /\ zoomSpan = NoZoomSpan
    /\ moveTrail = <<>>
    /\ console = <<>>
    /\ lastSettled = NotSettled

\* Both component scripts have run.
Ready == \A h \in Holders : holders[h] # 0

NextInstance ==
    \/ \E h \in Holders : getInstance(h)
    \/ Ready /\ NextService

SpecInstance == InitInstance /\ [][NextInstance]_vars

(* ------------------------------------------------------------------ *)
(* SpecCanvas: the transform under pointer, wheel and resize events.    *)
(* It starts in the states the canvas is in after the initial load has  *)
(* failed and the wheel has been turned k times over the viewport       *)
(* origin (which leaves the pan at 0), the debounced fetch of that      *)
(* burst having failed as well; timeout handles are counted from there. *)
(* No time passes.                                                      *)
(* ------------------------------------------------------------------ *)
RECURSIVE ZoomChain(_, _, _)
\* The zoom n wheel events of direction deltaY lead to from `zoom`; once an
\* event leaves the zoom unchanged, so do those that follow it.
ZoomChain(zoom, deltaY, n) ==
    IF \/ n = 0
       \/ zoom = (IF deltaY < 0 THEN MaxZoom ELSE MinZoom)
       \/ ZoomUnchanged(ClampedZoom(NewZoom(zoom, deltaY)), zoom)
    THEN zoom
    ELSE ZoomChain(ClampedZoom(NewZoom(zoom, deltaY)), deltaY, n - 1)

\* The zoom after k wheel steps from 1: up for k > 0, down for k < 0.
ZoomAfter(k) ==
    IF k >= 0
    THEN ZoomChain(InitialTransform.zoom, -1, k)
    ELSE ZoomChain(InitialTransform.zoom, 1, -k)

\* The attributes of the span of the last of those k wheel steps.
LastZoomSpan(k) ==
    IF k = 0 THEN NoZoomSpan
    ELSE IF k > 0 THEN ZoomAttributes(ZoomAfter(k - 1), -1, 0, 0)
    ELSE ZoomAttributes(ZoomAfter(k + 1), 1, 0, 0)

InitCanvas ==
    \E k \in (-MaxZoomSteps) .. MaxZoomSteps, v \in ViewportSizes :
        /\ transform = [panX |-> 0, panY |-> 0, zoom |-> ZoomAfter(k)]
        /\ isPanning = FALSE
        /\ lastPanX = 0
        /\ lastPanY = 0
        /\ viewportWidth = v[1]
        /\ viewportHeight = v[2]
        /\ debounceTimer = 0
        /\ timers = {}
        /\ nextTimerId = 1
        /\ widgets = <<>>
        /\ isLoadingWidgets = FALSE
        /\ apiError = Surfaced(IF k = 0 THEN "initial" ELSE "interaction", errorTypes[1])
        /\ errorProbability = DefaultErrorProbability
        /\ errorRate = DefaultErrorProbability
        /\ inflight = {}
        /\ mounted = TRUE
        /\ destroyed = FALSE
        /\ instance = 1
        /\ constructorRuns = 1
        /\ holders = [h \in Holders |-> 1]
        /\ sinceEvent = DEBOUNCE_DELAY
        /\ burstFires = IF k = 0 THEN 0 ELSE 1
        /\ lastBatch = <<>>
        /\ zoomSpan = LastZoomSpan(k)
        /\ moveTrail = <<>>
        /\ console = <<>>
        /\ lastSettled = NotSettled

\* Client positions of the pointer: where it is pressed and where the wheel is
\* turned, and where it is moved to.
CanvasPoints == {<<0, 0>>, <<230, 115>>}
MovePoints == CanvasPoints \cup {<<225, 114>>}
CanvasSizes == {<<400, 300>>}
WheelDeltas == {-100, 100}

NextCanvas ==
    \/ \E b \in Buttons, p \in CanvasPoints : handleMouseDown(b, p[1], p[2])
    \/ \E p \in MovePoints : handleMouseMove(p[1], p[2])
    \/ handleMouseUp
    \/ \E d \in WheelDeltas, p \in CanvasPoints : handleWheel(d, p[1], p[2])
    \/ \E v \in CanvasSizes : handleResize(v[1], v[2])

SpecCanvas == InitCanvas /\ [][NextCanvas]_vars

(* ------------------------------------------------------------------ *)
(* SpecCulling: isWidgetInView over widget positions, transforms and    *)
(* viewport sizes.  It starts in the states the canvas is in after the  *)
(* initial load has failed and the interaction fetch of a resize has    *)
(* brought one widget, placed by a pair of draws; the pointer then      *)
(* drags the canvas, the wheel zooms and the window is resized.  No     *)
(* time passes.                                                         *)
(* ------------------------------------------------------------------ *)
\* Pairs of draws that place the widget: the ends and the middle of the range.
CullingDraws == {<<0, 0>>, <<50, 50>>, <<99, 99>>, <<0, 99>>}
\* Client positions the pointer is dragged to from the viewport origin.
DragPoints == {<<-400, 0>>, <<-420, 0>>, <<-500, 0>>, <<500, 0>>, <<0, -500>>, <<0, 500>>}

InitCulling ==
    \E v \in ViewportSizes, p \in CullingDraws :
        /\ transform = InitialTransform
        /\ isPanning = FALSE
        /\ lastPanX = 0
        /\ lastPanY = 0
        /\ viewportWidth = v[1]
        /\ viewportHeight = v[2]
        /\ debounceTimer = 0
        /\ timers = {}
        /\ nextTimerId = 1
        /\ lastBatch = NewWidgets(<<1>>, <<p>>,
                                  [count |-> InteractionCount,
                                   currentPanX |-> worldViewCenterX,
                                   currentPanY |-> worldViewCenterY,
                                   currentZoom |-> transform.zoom])
        /\ widgets = lastBatch
        /\ isLoadingWidgets = FALSE
        /\ apiError = NULL
        /\ errorProbability = DefaultErrorProbability
        /\ errorRate = DefaultErrorProbability
        /\ inflight = {}
        /\ mounted = TRUE
        /\ destroyed = FALSE
        /\ instance = 1
        /\ constructorRuns = 1
        /\ holders = [h \in Holders |-> 1]
        /\ sinceEvent = DEBOUNCE_DELAY
        /\ burstFires = 1
        /\ zoomSpan = NoZoomSpan
        /\ moveTrail = <<>>
        /\ console = <<>>
        /\ lastSettled = NotSettled

NextCulling ==
    \/ handleMouseDown(0, 0, 0)
    \/ \E p \in DragPoints : handleMouseMove(p[1], p[2])
    \/ handleMouseUp
    \/ \E d \in WheelDeltas : handleWheel(d, 0, 0)
    \/ \E v \in CanvasSizes : handleResize(v[1], v[2])

SpecCulling == InitCulling /\ [][NextCulling]_vars

(* ================================================================== *)
(* Claims about the widget store (SpecStore)                            *)
(* ================================================================== *)
IdsOf(ws) == {ws[i].id : i \in 1 .. Len(ws)}

\* The entries of batch whose id the store does not hold yet, in batch order.
NewIn(batch, store) == SelectSeq(batch, LAMBDA w : w.id \notin IdsOf(store))

\* C1: after any sequence of initial load, button fetches and interaction
\* fetches, ids being drawn from a finite set, the widget store never holds
\* two entries with the same id.
C1_UniqueIds ==
    \A i, j \in 1 .. Len(widgets) : widgets[i].id = widgets[j].id => i = j

\* A step in which the call of the interaction fetch resolves.
InteractionResolves ==
    /\ \A f \in DueCalls : f.caller = "interaction"
    /\ \E r \in DecisionDraws : FetchResolve(r, MockIds, CentreDraw)

\* C9: when the batch of an interaction fetch arrives, the store is left as it
\* is if it holds every id of the batch, and grows by exactly k entries if the
\* batch brings k ids it does not hold.
C9_MergeOnArrival ==
    [][InteractionResolves =>
         LET k == Len(NewIn(lastBatch', widgets))
         IN  /\ k = 0 => widgets' = widgets
             /\ Len(widgets') = Len(widgets) + k]_vars

\* A store of several entries whose last one is the only widget of the batch
\* that arrived last, its id new to the entries before it.
C9_Witness ==
    /\ Len(lastBatch) = InteractionCount
    /\ Len(widgets) > InteractionCount
    /\ widgets[Len(widgets)] = lastBatch[1]
    /\ lastBatch[1].id \notin IdsOf(SubSeq(widgets, 1, Len(widgets) - 1))

\* C10: the store only grows: every step leaves it as it is or appends to it
\* entries of the batch that arrived, in the order of the batch (all of them,
\* or those with new ids), so every earlier store is a prefix of every later one.
C10_OnlyGrows ==
    [][\/ widgets' = widgets
       \/ widgets' = widgets \o lastBatch'
       \/ widgets' = widgets \o NewIn(lastBatch', widgets)]_vars

\* A store filled by a button fetch and then by an interaction fetch.
C10_Witness ==
    /\ Len(widgets) = ButtonCount + InteractionCount
    /\ Len(lastBatch) = InteractionCount
    /\ widgets[Len(widgets)] = lastBatch[1]

\* A step in which a fetchAllWidgets call rejects and its caller's fetch fails.
FetchFails ==
    /\ lastSettled'.outcome = "rejected"
    /\ lastSettled'.call.method = "fetchAllWidgets"

\* C11: when a fetch fails (initial load, button fetch or interaction fetch),
\* the store is left exactly as it was, the message of the error is written to
\* the error slot, the loading flag is cleared, and nothing is retried: no call
\* is issued and no timer is armed by the failure.
C11_FailureSurfaced ==
    [][FetchFails =>
         LET message == lastSettled'.value.message
         IN  /\ widgets' = widgets
             /\ apiError' \in {message, "Interaction fetch failed: " \o message}
             /\ isLoadingWidgets' = FALSE
             /\ inflight' \subseteq inflight
             /\ timers' \subseteq timers]_vars

\* An interaction fetch has just failed over a store that holds widgets.
C11_Witness ==
    /\ lastSettled.outcome = "rejected"
    /\ lastSettled.call.caller = "interaction"
    /\ Len(widgets) > 0
    /\ apiError # NULL
    /\ ~isLoadingWidgets
    /\ inflight = {}

(* ================================================================== *)
(* Claims about the mock service (SpecService)                          *)
(* ================================================================== *)
\* A call has settled in the last step.
Settled == lastSettled.outcome # "none"

\* C12: while the error probability is 1.0, every call that settles
\* (fetchWidgetData or fetchAllWidgets) rejects; while it is 0.0, every call
\* that settles resolves, whatever Math.random() draws in [0, 1).
C12_CertainOutcomes ==
    Settled =>
        /\ errorProbability = 100 => lastSettled.outcome = "rejected"
        /\ errorProbability = 0 => lastSettled.outcome = "resolved"

\* A fetchAllWidgets call has just rejected under the error probability 1.0.
C12_Witness ==
    /\ errorProbability = 100
    /\ lastSettled.outcome = "rejected"
    /\ lastSettled.call.method = "fetchAllWidgets"

\* A step in which the slider reports p or setErrorProbability(p) is called.
ProbabilityInput(p) == handleProbabilityChange(p) \/ setErrorProbabilityCall(p)

\* C13: the error-probability setting is 0.15 initially and lies in [0, 1] in
\* every reachable state, and the service's rate equals it; an input below 0,
\* above 1 or NaN leaves the setting and the rate as they are, and an input in
\* [0, 1] becomes the setting and the rate the later decisions use.
C13_ProbabilityInRange ==
    /\ errorProbability = DefaultErrorProbability
    /\ [](errorProbability >= 0 /\ errorProbability <= 100 /\ errorRate = errorProbability)
    /\ [][\A p \in ProbabilityInputs :
             ProbabilityInput(p) =>
                 IF ~p.nan /\ p.value >= 0 /\ p.value <= 100
                 THEN errorProbability' = p.value /\ errorRate' = p.value
                 ELSE UNCHANGED <<errorProbability, errorRate>>]_vars

\* The probability has been set to 0 while a call is in flight, whose decision
\* is still to be taken.
C13_Witness ==
    /\ errorProbability = 0
    /\ errorRate = 0
    /\ inflight # {}

\* The call f, in flight before the step, is in flight no more after it.
Leaves(f) == \A g \in inflight' : CallOf(g) # CallOf(f)

\* Every widget of the batch lies within 300/zoom of the requested centre on
\* both axes.
AroundCentre(batch, requestParams) ==
    LET radius == FDiv(FromInt(300), requestParams.currentZoom)
    IN  \A i \in 1 .. Len(batch) :
            /\ batch[i].x >= requestParams.currentPanX - radius
            /\ batch[i].x <= requestParams.currentPanX + radius
            /\ batch[i].y >= requestParams.currentPanY - radius
            /\ batch[i].y <= requestParams.currentPanY + radius

\* C15: a fetchAllWidgets(count, centerX, centerY, zoom) call leaves the set of
\* calls in flight only by settling, once and not before its delay has elapsed:
\* it rejects with a simulated error, or resolves with exactly count widgets,
\* each within 300/zoom of the centre on both axes; nothing cancels it, and
\* nothing settles that was not in flight.
C15_BatchSettles ==
    [][/\ \A f \in inflight :
              (f.method = "fetchAllWidgets" /\ Leaves(f)) =>
                  /\ f.due = 0
                  /\ lastSettled'.outcome \in {"resolved", "rejected"}
                  /\ lastSettled'.call = CallOf(f)
                  /\ lastSettled'.outcome = "rejected" =>
                         lastSettled'.value.errorType
                             \in {"NetworkError", "APIError", "NotFoundError"}
                  /\ lastSettled'.outcome = "resolved" =>
                         /\ Len(lastSettled'.value) = f.requestParams.count
                         /\ AroundCentre(lastSettled'.value, f.requestParams)
       /\ lastSettled'.outcome # "none" =>
              \E f \in inflight : CallOf(f) = lastSettled'.call /\ Leaves(f)]_vars

\* An interaction fetch made after zooming in has just resolved with one
\* widget, placed at the corner of the square around the requested centre.
C15_Witness ==
    /\ lastSettled.outcome = "resolved"
    /\ lastSettled.call.method = "fetchAllWidgets"
    /\ lastSettled.call.requestParams.count = InteractionCount
    /\ lastSettled.call.requestParams.currentZoom > FromInt(1)
    /\ Len(lastSettled.value) = InteractionCount
    /\ lastSettled.value[1].x = lastSettled.call.requestParams.currentPanX
           - FDiv(FromInt(300), lastSettled.call.requestParams.currentZoom)

\* The kind and status of a rejection (status 0: none).
KindOf(error) == <<error.errorType, error.status>>

\* C16: every rejection carries one of the four templates: NetworkError
\* without status, APIError 500, NotFoundError 404, APIError 400; and its
\* requestParams are exactly the parameters of the call that failed.
C16_RejectionTemplates ==
    lastSettled.outcome = "rejected" =>
        /\ KindOf(lastSettled.value) \in {<<"NetworkError", 0>>, <<"APIError", 500>>,
                                          <<"NotFoundError", 404>>, <<"APIError", 400>>}
        /\ lastSettled.value.requestParams = lastSettled.call.requestParams

\* A fetchWidgetData call has just been rejected with NotFoundError 404.
C16_Witness ==
    /\ lastSettled.outcome = "rejected"
    /\ lastSettled.call.method = "fetchWidgetData"
    /\ KindOf(lastSettled.value) = <<"NotFoundError", 404>>
    /\ lastSettled.value.requestParams = [widgetId |-> lastSettled.call.requestParams.widgetId]

\* C17: a step in which a call settles writes exactly one record: a success
\* record, naming the method, if the call resolves and an error record if it
\* rejects; a step in which no call settles writes no record.
C17_OneRecordPerCall ==
    /\ Settled => Len(console) = 1
    /\ lastSettled.outcome = "resolved" =>
           console[1] = [level |-> "SUCCESS", about |-> lastSettled.call.method]
    /\ lastSettled.outcome = "rejected" =>
           console[1] = [level |-> "ERROR", about |-> lastSettled.value.errorType]
    /\ ~Settled => console = <<>>

\* A fetchWidgetData call has just resolved and its success record is the
\* only record written.
C17_Witness ==
    /\ lastSettled.outcome = "resolved"
    /\ lastSettled.call.method = "fetchWidgetData"
    /\ console = <<[level |-> "SUCCESS", about |-> "fetchWidgetData"]>>

\* C18: a fetchWidgetData(id) call that settles either rejects with a
\* simulated error or resolves with a widget whose id is the requested id and
\* whose x and y both lie in [-500, 500].
C18_FetchOne ==
    (Settled /\ lastSettled.call.method = "fetchWidgetData") =>
        \/ /\ lastSettled.outcome = "rejected"
           /\ lastSettled.value.errorType \in {"NetworkError", "APIError", "NotFoundError"}
        \/ /\ lastSettled.outcome = "resolved"
           /\ lastSettled.value.id = lastSettled.call.requestParams.widgetId
           /\ lastSettled.value.x >= FromInt(-500) /\ lastSettled.value.x <= FromInt(500)
           /\ lastSettled.value.y >= FromInt(-500) /\ lastSettled.value.y <= FromInt(500)

\* fetchWidgetData(2) has just resolved with widget 2, placed at the lower
\* end of the range.
C18_Witness ==
    /\ lastSettled.outcome = "resolved"
    /\ lastSettled.call = [method |-> "fetchWidgetData", caller |-> "direct",
                           requestParams |-> [widgetId |-> 2]]
    /\ lastSettled.value = [id |-> 2, x |-> FromInt(-500), y |-> FromInt(-500)]

\* C22: the decision of a call is taken in the step in which the call
\* settles, with the error rate of that moment: at rate 1.0 the call rejects
\* and at rate 0.0 it resolves, whatever the rate was when the call was made.
C22_DecidedWhenSettling ==
    [][\A f \in inflight :
           Leaves(f) =>
               /\ errorRate = 100 => lastSettled'.outcome = "rejected"
               /\ errorRate = 0 => lastSettled'.outcome = "resolved"
               /\ lastSettled'.rateAtCall = f.rateAtCall]_vars

\* A call made at rate 1.0 has just resolved, the rate having been set to 0.0
\* while it was in flight.
C22_Witness ==
    /\ lastSettled.outcome = "resolved"
    /\ lastSettled.rateAtCall = 100
    /\ errorRate = 0

(* ================================================================== *)
(* Claims about viewport culling (SpecCulling)                          *)
(* ================================================================== *)
\* The viewport's world rectangle, inflated by `margin` pixels on every side.
ViewLeft(margin) == (-transform.panX) - FDiv(FromInt(margin), transform.zoom)
ViewTop(margin) == (-transform.panY) - FDiv(FromInt(margin), transform.zoom)
ViewRight(margin) ==
    (-transform.panX) + FDiv(FromInt(viewportWidth), transform.zoom)
        + FDiv(FromInt(margin), transform.zoom)
ViewBottom(margin) ==
    (-transform.panY) + FDiv(FromInt(viewportHeight), transform.zoom)
        + FDiv(FromInt(margin), transform.zoom)

\* The widget's 220x150 world rectangle has no interior point in common with
\* the viewport rectangle inflated by margin.
OutsideView(w, margin) ==
    \/ w.x + FromInt(220) <= ViewLeft(margin)
    \/ w.x >= ViewRight(margin)
    \/ w.y + FromInt(150) <= ViewTop(margin)
    \/ w.y >= ViewBottom(margin)

\* The widget's rectangle lies within the viewport rectangle inflated by margin.
InsideView(w, margin) ==
    /\ ViewLeft(margin) <= w.x /\ w.x + FromInt(220) <= ViewRight(margin)
    /\ ViewTop(margin) <= w.y /\ w.y + FromInt(150) <= ViewBottom(margin)

\* The two rectangles overlap over a positive length on both axes.
OverlapsView(w, margin) ==
    /\ Min(w.x + FromInt(220), ViewRight(margin)) - Max(w.x, ViewLeft(margin)) > 0
    /\ Min(w.y + FromInt(150), ViewBottom(margin)) - Max(w.y, ViewTop(margin)) > 0

\* C14: with the viewport's world rectangle inflated by 100/zoom on every
\* side, a widget entirely outside it is reported not visible, one entirely
\* inside it or overlapping it with positive area is reported visible, and the
\* report is the same for every widget at that position.
C14_Culling ==
    \A i \in 1 .. Len(widgets) :
        LET w == widgets[i]
        IN  /\ OutsideView(w, 100) => ~isWidgetInView(w, transform)
            /\ InsideView(w, 100) => isWidgetInView(w, transform)
            /\ OverlapsView(w, 100) => isWidgetInView(w, transform)
            /\ \A id \in MockIds :
                   isWidgetInView([w EXCEPT !.id = id], transform)
                       = isWidgetInView(w, transform)

\* A widget that has been dragged out of the viewport and reaches into the
\* margin around it only, and is reported visible.
C14_Witness ==
    /\ Len(widgets) > 0
    /\ OutsideView(widgets[1], 0)
    /\ OverlapsView(widgets[1], 100)
    /\ ~InsideView(widgets[1], 100)
    /\ isWidgetInView(widgets[1], transform)

\* The widget's 220x150 rectangle as the canvas-content element draws it
\* overlaps the pixel rectangle of the viewport.
DrawnInViewport(w) ==
    LET topLeft == canvasContentTransform(w.x, w.y, transform)
        bottomRight == canvasContentTransform(w.x + FromInt(220), w.y + FromInt(150),
                                              transform)
    IN  /\ topLeft[1] < FromInt(viewportWidth) /\ bottomRight[1] > 0
        /\ topLeft[2] < FromInt(viewportHeight) /\ bottomRight[2] > 0

\* C23: a widget whose rectangle, as drawn under translate(pan) scale(zoom)
\* with the origin at the top-left, overlaps the viewport's pixel rectangle is
\* reported visible by isWidgetInView.
C23_CullingAgreesWithRendering ==
    \A i \in 1 .. Len(widgets) :
        DrawnInViewport(widgets[i]) => isWidgetInView(widgets[i], transform)

(* ================================================================== *)
(* Claims about the debounce (Spec)                                     *)
(* ================================================================== *)
\* C2: a burst of pan-move, zoom-change or resize events, each arriving before
\* the timer armed by the one before it expires, leads to exactly one
\* invocation of the fetch routine, and only once the quiet period started by
\* the last event of the burst has elapsed.
C2_Coalescing ==
    /\ burstFires <= 1
    /\ burstFires > 0 => sinceEvent = DEBOUNCE_DELAY
    /\ (nextTimerId > 1 /\ sinceEvent = DEBOUNCE_DELAY) =>
           (burstFires = 1 \/ DueTimers # {})

\* C3: at most one debounce timer is armed in every reachable state.
C3_AtMostOneTimer == Cardinality(timers) <= 1

\* A step in which a debounce timer expires.
TimerExpires == \E r \in LatencyDraws : TimerFire(r)

\* A step in which an interaction fetch is started.
InteractionStarts ==
    /\ \A f \in inflight : f.caller # "interaction"
    /\ \E f \in inflight' : f.caller = "interaction"

\* C4: a debounce timer that expires while the loading flag is set is used up
\* and nothing else happens: no call is issued, the store, the flag and the
\* error slot stay as they are, and no timer is armed in its place; an
\* interaction fetch is only ever started by the expiry of an armed timer while
\* the flag is clear, so the dropped trigger is not retried.
C4_DroppedWhileLoading ==
    [][/\ (isLoadingWidgets /\ TimerExpires) =>
             /\ UNCHANGED <<widgets, isLoadingWidgets, apiError, inflight>>
             /\ UNCHANGED <<debounceTimer, nextTimerId>>
             /\ timers' \subseteq timers /\ timers' # timers
       /\ InteractionStarts =>
             /\ ~isLoadingWidgets
             /\ timers' \subseteq timers /\ timers' # timers]_vars

\* The timer of the last trigger has expired during the initial load, which is
\* still in flight, and no timer is left.
C4_Witness ==
    /\ isLoadingWidgets
    /\ burstFires = 1
    /\ debounceTimer # 0
    /\ timers = {}
    /\ inflight # {}
    /\ \A f \in inflight : f.caller = "initial"

\* C19: at most one mock fetch is in flight at any time, and the loading flag
\* is set exactly while one is in flight, over all interleavings of the
\* initial load, timer expiries and button clicks.
C19_OneFetchInFlight ==
    /\ Cardinality(inflight) <= 1
    /\ isLoadingWidgets <=> inflight # {}

\* The call of a button fetch is in flight, the flag is set, and a debounce
\* timer armed meanwhile has come due.
C19_Witness ==
    /\ isLoadingWidgets
    /\ \E f \in inflight : f.caller = "button"
    /\ DueTimers # {}

\* C20: if every timeout that is armed eventually fires, every fetch that is
\* started completes, by success or by failure, and clears the loading flag:
\* the flag never stays set forever.
C20_LoadingEnds == isLoadingWidgets ~> ~isLoadingWidgets

\* The initial load has just completed with success and the flag is clear.
C20_Witness ==
    /\ lastSettled.outcome = "resolved"
    /\ lastSettled.call.caller = "initial"
    /\ ~isLoadingWidgets
    /\ inflight = {}

\* C21: after the canvas has been torn down no debounce timer remains armed,
\* so that the fetch routine is never invoked by a debounce timer again.
C21_NoTimerAfterTeardown == destroyed => timers = {}

(* ================================================================== *)
(* Claims about the transform (SpecCanvas)                              *)
(* ================================================================== *)
\* C5: the zoom stays within [0.1, 10], and a wheel step whose attempted zoom
\* lies beyond a bound leaves the zoom exactly at that bound.
C5_ZoomInRange ==
    /\ MinZoom <= transform.zoom /\ transform.zoom <= MaxZoom
    /\ zoomSpan.attempted > MaxZoom => transform.zoom = MaxZoom
    /\ (zoomSpan # NoZoomSpan /\ zoomSpan.attempted < MinZoom) => transform.zoom = MinZoom

\* A wheel step away from the viewport origin has attempted a zoom above 10
\* from below 10 and has left the zoom at 10.
C5_Witness ==
    /\ zoomSpan.mouseX # 0
    /\ zoomSpan.old < MaxZoom
    /\ zoomSpan.attempted > MaxZoom
    /\ transform.zoom = MaxZoom

\* C6: a wheel event whose clamped new zoom equals the current zoom leaves
\* panX, panY and zoom unchanged and neither cancels nor arms a debounce timer.
C6_NoOpAtBound ==
    [][\A d \in WheelDeltas, p \in CanvasPoints :
          (/\ ClampedZoom(NewZoom(transform.zoom, d)) = transform.zoom
           /\ handleWheel(d, p[1], p[2]))
          => UNCHANGED <<transform, debounceTimer, timers, nextTimerId>>]_vars

\* The last wheel event, away from the viewport origin, found the zoom at 10
\* and attempted more, while the timer of the one trigger so far stays armed.
C6_Witness ==
    /\ zoomSpan.mouseX # 0
    /\ zoomSpan.old = MaxZoom
    /\ zoomSpan.clamped = MaxZoom
    /\ transform.zoom = MaxZoom
    /\ debounceTimer = 1
    /\ timers = {[id |-> 1, due |-> DEBOUNCE_DELAY]}

\* The world coordinate shown at a screen coordinate, and back, under
\* screen = world * zoom + pan.
WorldAt(screen, pan, zoom) == FDiv(FromInt(screen) - pan, zoom)
ScreenOf(world, pan, zoom) == FMul(world, zoom) + pan

\* What the rounding of the operations involved may add up to: 1/100 pixel.
RoundingSlack == Scale \div 100

\* C7: for every wheel event that changes the zoom, the world point under the
\* cursor by screen = world * zoom + pan with the old transform is, by the same
\* relation with the new transform, still under the cursor, on both axes.
C7_ZoomToCursor ==
    [][\A d \in WheelDeltas, p \in CanvasPoints :
          (handleWheel(d, p[1], p[2]) /\ transform'.zoom # transform.zoom) =>
              LET x == p[1] - RectLeft
                  y == p[2] - RectTop
                  wx == WorldAt(x, transform.panX, transform.zoom)
                  wy == WorldAt(y, transform.panY, transform.zoom)
              IN  /\ Abs(ScreenOf(wx, transform'.panX, transform'.zoom) - FromInt(x))
                        <= RoundingSlack
                  /\ Abs(ScreenOf(wy, transform'.panY, transform'.zoom) - FromInt(y))
                        <= RoundingSlack]_vars

\* The pan a single move by `delta` pixels leaves on an axis that was at `pan`.
SingleMove(pan, delta) == pan + FDiv(FromInt(delta), transform.zoom)

StartedCalls == {g \in inflight' : \A f \in inflight : CallOf(f) # CallOf(g)}

\* A debounce timer expires while the loading flag is set: the trigger is dropped.
SkippedTrigger == isLoadingWidgets /\ \E r \in LatencyDraws : TimerFire(r)

\* C25: the error slot is empty while a fetch is in flight; when a fetch
\* completes the slot holds a message if and only if the fetch failed; the slot
\* then changes only when the user dismisses the message or a fetch starts,
\* both of which empty it; and a dropped debounce trigger leaves the slot as
\* it is.
C25_ErrorSlot ==
    [][/\ inflight' # {} => apiError' = NULL
       /\ \A f \in inflight :
              Leaves(f) => ((apiError' # NULL) <=> (lastSettled'.outcome = "rejected"))
       /\ apiError' # apiError =>
              \/ \E f \in inflight : Leaves(f) /\ lastSettled'.outcome = "rejected"
              \/ Dismiss
              \/ StartedCalls # {} /\ apiError' = NULL
       /\ SkippedTrigger => apiError' = apiError]_vars

\* An interaction fetch has just failed and its message is in the error slot,
\* no fetch being in flight.
C25_Witness ==
    /\ lastSettled.outcome = "rejected"
    /\ lastSettled.call.caller = "interaction"
    /\ apiError # NULL
    /\ inflight = {}

\* C27: an interaction fetch is started by the expiry of a debounce timer and
\* requests exactly 1 widget around viewport/2/zoom - pan at the zoom, all
\* taken from the transform and the viewport of the moment of expiry; a change
\* of the transform while the fetch is in flight leaves the request as it
\* was, and the call settles with that request.
C27_RequestAtExpiry ==
    [][/\ \A g \in StartedCalls :
              g.caller = "interaction" =>
                  /\ \E t \in timers : t.due = 0 /\ t \notin timers'
                  /\ transform' = transform
                  /\ g.requestParams =
                         [count |-> 1,
                          currentPanX |-> FDiv(FromInt(viewportWidth) \div 2, transform.zoom)
                                              - transform.panX,
                          currentPanY |-> FDiv(FromInt(viewportHeight) \div 2, transform.zoom)
                                              - transform.panY,
                          currentZoom |-> transform.zoom]
       /\ \A f \in inflight :
              f.caller = "interaction" =>
                  /\ transform' # transform =>
                         \E g \in inflight' : CallOf(g) = CallOf(f)
                  /\ Leaves(f) => lastSettled'.call = CallOf(f)]_vars

\* An interaction fetch is in flight and the zoom is no longer the one of its
\* request: the wheel has turned since the timer expired.
C27_Witness ==
    \E f \in inflight :
        /\ f.caller = "interaction"
        /\ f.requestParams.count = 1
        /\ f.requestParams.currentZoom # transform.zoom
        /\ f.requestParams.currentZoom # InitialTransform.zoom

\* C28: the service is a single shared instance: every holder that has called
\* getInstance holds MockApiService.instance, the constructor and its
\* subscription to the errorProbability store have run at most once, and the
\* rate the instance decides with is the value last stored by
\* setErrorProbability through any holder.
C28_Singleton ==
    /\ constructorRuns <= 1
    /\ constructorRuns = (IF instance = 0 THEN 0 ELSE 1)
    /\ \A h \in Holders : holders[h] # 0 => holders[h] = instance
    /\ instance # 0 => errorRate = errorProbability
    /\ (lastSettled # NotSettled /\ errorProbability = 100) =>
           lastSettled.outcome = "rejected"
    /\ (lastSettled # NotSettled /\ errorProbability = 0) =>
           lastSettled.outcome = "resolved"

\* The page and the canvas hold the one instance, constructed once, and a call
\* made by the canvas has been rejected at the probability 1.0 set through the
\* page's holder.
C28_Witness ==
    /\ constructorRuns = 1
    /\ holders["page"] = instance /\ holders["canvas"] = instance
    /\ instance # 0
    /\ errorProbability = 100
    /\ lastSettled.outcome = "rejected"
    /\ lastSettled.call.caller = "interaction"

\* C26: every wheel event has started exactly one canvas.zoom span and has ended
\* it exactly once, whether the zoom changed or was left unchanged by the clamp.
C26_SpanEndedOnce ==
    zoomSpan # NoZoomSpan => (zoomSpan.started = 1 /\ zoomSpan.ended = 1)

\* C24: panning becomes active on a pointer-down of the left button and ends
\* on the next pointer-up, and nothing else changes it.  A pointer-down of
\* another button and a pointer-move while panning is not active leave the
\* transform and the debounce timer as they are; a pointer-move while panning
\* is active adds (dx/zoom, dy/zoom) to the pan, leaves the zoom and arms the
\* debounce timer anew.
C24_Panning ==
    [][/\ \A b \in Buttons, p \in CanvasPoints :
              handleMouseDown(b, p[1], p[2]) =>
                  /\ isPanning' = (isPanning \/ b = 0)
                  /\ UNCHANGED <<transform, debounceTimer, timers, nextTimerId>>
       /\ handleMouseUp =>
              /\ ~isPanning'
              /\ UNCHANGED <<transform, debounceTimer, timers, nextTimerId>>
       /\ \A p \in MovePoints :
              handleMouseMove(p[1], p[2]) =>
                  /\ isPanning' = isPanning
                  /\ IF isPanning
                     THEN /\ transform'.panX = transform.panX
                                 + FDiv(FromInt(p[1] - lastPanX), transform.zoom)
                          /\ transform'.panY = transform.panY
                                 + FDiv(FromInt(p[2] - lastPanY), transform.zoom)
                          /\ transform'.zoom = transform.zoom
                          /\ debounceTimer' = nextTimerId
                          /\ [id |-> nextTimerId, due |-> DEBOUNCE_DELAY] \in timers'
                          /\ \A t \in timers : t.id = debounceTimer => t \notin timers'
                     ELSE UNCHANGED <<transform, debounceTimer, timers, nextTimerId>>
       /\ isPanning' # isPanning =>
              \/ handleMouseUp
              \/ \E p \in CanvasPoints : handleMouseDown(0, p[1], p[2])]_vars

\* Panning is active at a zoom other than 1 and the last pointer-move, by a
\* distance other than zero on the X axis, has added dx/zoom to panX and has
\* left the debounce timer armed for the whole delay.
C24_Witness ==
    /\ isPanning
    /\ Len(moveTrail) > 0
    /\ transform.zoom # Scale
    /\ lastPanX # moveTrail[Len(moveTrail)].clientX
    /\ transform.panX = moveTrail[Len(moveTrail)].panX
           + FDiv(FromInt(lastPanX - moveTrail[Len(moveTrail)].clientX), transform.zoom)
    /\ [id |-> debounceTimer, due |-> DEBOUNCE_DELAY] \in timers

====
